---- MODULE Spec2Model ----
(***************************************************************************)
(* Model of src/genjsonMulti.js: the xlsx <-> json converters of the       *)
(* repository.  The file holds three scripts:                              *)
(*   - xlsx2json, one workbook per language   (lines 1-211,  unflatten     *)
(*     with the setDeep helper, processWorkbookToJSON, the per-file loop); *)
(*   - xlsx2json, one column per language     (lines 213-381, the inline   *)
(*     unflatten and the per-column loop);                                 *)
(*   - genxlsx                                (lines 383-500, flattenJSON  *)
(*     and the per-JSON-file loop).                                        *)
(*                                                                         *)
(* JavaScript values are modelled as records [k, v, p]:                    *)
(*   k = "s" a string scalar with text v,   k = "n" null,                  *)
(*   k = "u" undefined (an absent property), k = "f" a function value,     *)
(*   k = "o" a plain object, k = "a" an array; for both p is the sequence  *)
(*   of own properties <<key, value>> in the order Object.entries yields   *)
(*   them (integer-like keys ascending, then the others as inserted).      *)
(* Strings that the code takes apart (flat keys, path segments, property   *)
(* names) are sequences of one-character strings, so that split('.'),      *)
(* Number(p) and the template `${nk}.${i}` are computed, not assumed.      *)
(***************************************************************************)
EXTENDS Integers, Sequences, FiniteSets, TLC

VARIABLES
    pc,        \* position of the run
    tree,      \* genxlsx: the parsed JSON document handed to flattenJSON
    flatObj,   \* the flat object handed to unflatten, as Object.entries yields it
    n,         \* number of rows of the sheet read so far
    root,      \* unflatten (setDeep variant, lines 26-94): the accumulating root
    root2,     \* unflatten (inline variant, lines 224-292): the accumulating root
    out,       \* flattenJSON(root): the flat object produced from the result
    files,     \* batch drivers: per unit, what happens to it ("ok", "readFail", "convertFail")
    driver,    \* batch drivers: which main() is running
    unit,      \* batch drivers: number of units the loop has gone through
    flatMaps,  \* genxlsx: units whose flat object has been stored (line 455)
    written,   \* batch drivers: units whose output has been written to disk
    reported,  \* batch drivers: units whose failure has been reported
    exited     \* batch drivers: process.exit has been called

vars == <<pc, tree, flatObj, n, root, root2, out,
          files, driver, unit, flatMaps, written, reported, exited>>

-----------------------------------------------------------------------------
(* Bounds *)

\* longest dotted path (number of segments) of a flat key that is drawn
MaxDepth == 3
\* largest number of rows of a sheet that is drawn
MaxEntries == 2
\* largest number of nodes (objects, arrays and leaves) of a JSON document that is drawn
MaxNodes == 5
\* largest number of units (files or columns) of a batch
MaxFiles == 3

-----------------------------------------------------------------------------
(* JavaScript values *)

Str(s) == [k |-> "s", v |-> s, p |-> <<>>]
Null == [k |-> "n", v |-> "", p |-> <<>>]
Undefined == [k |-> "u", v |-> "", p |-> <<>>]
Func == [k |-> "f", v |-> "", p |-> <<>>]
EmptyObj == [k |-> "o", v |-> "", p |-> <<>>]
EmptyArr == [k |-> "a", v |-> "", p |-> <<>>]
Obj(props) == [k |-> "o", v |-> "", p |-> props]
Arr(props) == [k |-> "a", v |-> "", p |-> props]

\* Array.isArray(x)
IsArray(x) == x.k = "a"
\* x != null && typeof x === 'object'
IsObjectLike(x) == x.k \in {"o", "a"}
\* x == null || typeof x !== 'object'   (lines 72, 78, 280-281, 284-285)
NotAContainer(x) == ~IsObjectLike(x)
\* x ?? ''   (lines 409, 413)
OrEmpty(x) == IF x.k \in {"n", "u"} THEN Str("") ELSE x

Digit == {"0", "1", "2", "3", "4", "5", "6", "7", "8", "9"}
DigitVal(c) == CASE c = "0" -> 0 [] c = "1" -> 1 [] c = "2" -> 2 [] c = "3" -> 3
                 [] c = "4" -> 4 [] c = "5" -> 5 [] c = "6" -> 6 [] c = "7" -> 7
                 [] c = "8" -> 8 [] c = "9" -> 9
DigitChar(d) == CASE d = 0 -> "0" [] d = 1 -> "1" [] d = 2 -> "2" [] d = 3 -> "3"
                  [] d = 4 -> "4" [] d = 5 -> "5" [] d = 6 -> "6" [] d = 7 -> "7"
                  [] d = 8 -> "8" [] d = 9 -> "9"

\* /^\d+$/.test(p)   (lines 17, 226)
isIndex(p) == Len(p) > 0 /\ \A j \in 1..Len(p) : p[j] \in Digit

\* Number(p) for a string of digits
RECURSIVE Number(_)
Number(p) == IF Len(p) = 0 THEN 0
             ELSE 10 * Number(SubSeq(p, 1, Len(p) - 1)) + DigitVal(p[Len(p)])

\* String(i) for a non-negative integer: the property name of cur[idx], and ${i}
RECURSIVE NumToStr(_)
NumToStr(i) == IF i < 10 THEN <<DigitChar(i)>>
               ELSE NumToStr(i \div 10) \o <<DigitChar(i % 10)>>

\* the property name under which cur[Number(p)] is stored
IdxKey(p) == NumToStr(Number(p))

\* an integer-like property name: Object.entries lists these first, ascending
IsIntegerKey(key) == isIndex(key) /\ IdxKey(key) = key

\* position of the own property `key` in a property list, 0 when there is none
RECURSIVE PropPos(_, _, _)
PropPos(props, key, j) ==
    IF j > Len(props) THEN 0
    ELSE IF props[j][1] = key THEN j
    ELSE PropPos(props, key, j + 1)

HasOwn(x, key) == PropPos(x.p, key, 1) # 0

\* x[key]
Get(x, key) == LET j == PropPos(x.p, key, 1) IN IF j = 0 THEN Undefined ELSE x.p[j][2]

\* where a new own property goes in the order of Object.entries
RECURSIVE InsertPos(_, _, _)
InsertPos(props, key, j) ==
    IF j > Len(props) THEN j
    ELSE IF ~IsIntegerKey(key) THEN Len(props) + 1
    ELSE IF ~IsIntegerKey(props[j][1]) THEN j
    ELSE IF Number(props[j][1]) > Number(key) THEN j
    ELSE InsertPos(props, key, j + 1)

\* the property list after x[key] = val
PutProp(props, key, val) ==
    LET j == PropPos(props, key, 1) IN
    IF j # 0 THEN [props EXCEPT ![j] = <<key, val>>]
    ELSE LET q == InsertPos(props, key, 1) IN
         SubSeq(props, 1, q - 1) \o <<<<key, val>>>> \o SubSeq(props, q, Len(props))

\* the value x after x[key] = val
Put(x, key, val) == [x EXCEPT !.p = PutProp(x.p, key, val)]

\* the node reached from r by following the property names of path
RECURSIVE NodeAt(_, _)
NodeAt(r, path) ==
    IF path = <<>> THEN r
    ELSE NodeAt(Get(r, path[1]), Tail(path))

\* r with the node at path replaced by node (the slot of its parent reassigned)
RECURSIVE ReplaceAt(_, _, _)
ReplaceAt(r, path, node) ==
    IF path = <<>> THEN node
    ELSE Put(r, path[1], ReplaceAt(Get(r, path[1]), Tail(path), node))

\* r after  cur[key] = val  where cur is the node at curPath
AssignAt(r, curPath, key, val) ==
    ReplaceAt(r, curPath, Put(NodeAt(r, curPath), key, val))

-----------------------------------------------------------------------------
(* Strings *)

\* the element of a one-element set.  Below, Only({F(x) : x \in {e}}) stands for
\* "let x be the value of e in F(x)": it has e evaluated once, where a LET
\* definition is evaluated anew at each of its uses.
Only(S) == CHOOSE x \in S : TRUE

\* flatKey.split('.')
RECURSIVE SplitFrom(_, _, _)
SplitFrom(s, j, seg) ==
    IF j > Len(s) THEN <<seg>>
    ELSE IF s[j] = "." THEN <<seg>> \o SplitFrom(s, j + 1, <<>>)
    ELSE SplitFrom(s, j + 1, Append(seg, s[j]))

Split(s) == SplitFrom(s, 1, <<>>)

\* parts.join('.'): the dotted key of a sequence of segments
RECURSIVE Join(_)
Join(parts) ==
    IF Len(parts) = 0 THEN <<>>
    ELSE IF Len(parts) = 1 THEN parts[1]
    ELSE parts[1] \o <<".">> \o Join(Tail(parts))

-----------------------------------------------------------------------------
(* unflatten, the setDeep variant (lines 26-94) *)

\* mutant of NewContainer: the test inverted
NewContainerInverted(nextIsIndex) == IF nextIsIndex THEN EmptyObj ELSE EmptyArr

\* nextIsIndex ? [] : {}   (lines 73, 79, and 280-285 of the inline variant)
NewContainer(nextIsIndex) == IF nextIsIndex THEN EmptyArr ELSE EmptyObj

\* mutant of ConvertParentSlot: the root is replaced like any other node
ConvertAlsoRoot(r, curPath) ==
    IF ~IsArray(NodeAt(r, curPath)) THEN ReplaceAt(r, curPath, EmptyArr) ELSE r

\* lines 42-51 and 63-71: stepping through an index while cur is not an array.
\* With a parent, the parent's slot is reassigned to an array (the one already
\* there if it is one, else a fresh []), and cur becomes that array; at the root
\* (parentInfo.container is null) nothing is done.  cur is the node at curPath,
\* its parent's slot is the last name of curPath.
ConvertParentSlot(r, curPath) ==
    IF ~IsArray(NodeAt(r, curPath)) /\ curPath # <<>>
    THEN LET slot == NodeAt(r, curPath)
             arr == IF IsArray(slot) THEN slot ELSE EmptyArr
         IN ReplaceAt(r, curPath, arr)
    ELSE r

\* lines 72-74 and 78-80: make sure cur[key] is a container
EnsureContainer(r, curPath, key, nextIsIndex) ==
    IF NotAContainer(Get(NodeAt(r, curPath), key))
    THEN AssignAt(r, curPath, key, NewContainer(nextIsIndex))
    ELSE r

\* mutant of SetLeaf: the slot gets a fresh array whether or not cur is one
SetLeafFreshArray(r, curPath, p, value) ==
    IF isIndex(p)
    THEN AssignAt(IF curPath # <<>> THEN ReplaceAt(r, curPath, EmptyArr) ELSE r,
                  curPath, IdxKey(p), value)
    ELSE AssignAt(r, curPath, p, value)

\* lines 39-57: the last segment, cur[idx] = value or cur[p] = value
SetLeaf(r, curPath, p, value) ==
    IF isIndex(p)
    THEN AssignAt(ConvertParentSlot(r, curPath), curPath, IdxKey(p), value)
    ELSE AssignAt(r, curPath, p, value)

\* lines 34-84: the loop of setDeep from segment i on; r is the root object,
\* curPath the property names leading from the root to cur
RECURSIVE setDeepFrom(_, _, _, _, _)
setDeepFrom(r, curPath, parts, i, value) ==
    LET p == parts[i]
        last == i = Len(parts)
        nextIsIndex == ~last /\ isIndex(parts[i + 1])
    IN IF last THEN SetLeaf(r, curPath, p, value)
       ELSE IF isIndex(p)
       THEN Only({setDeepFrom(r1, Append(curPath, IdxKey(p)), parts, i + 1, value) :
                  r1 \in {EnsureContainer(ConvertParentSlot(r, curPath), curPath,
                                          IdxKey(p), nextIsIndex)}})
       ELSE Only({setDeepFrom(r1, Append(curPath, p), parts, i + 1, value) :
                  r1 \in {EnsureContainer(r, curPath, p, nextIsIndex)}})

setDeep(r, parts, value) == setDeepFrom(r, <<>>, parts, 1, value)

\* lines 87-91: the body of the entry loop of unflatten
unflattenEntry(r, flatKey, value) ==
    IF flatKey = <<>> THEN r
    ELSE setDeep(r, Split(flatKey), value)

-----------------------------------------------------------------------------
(* unflatten, the inline variant (lines 224-292) *)

PushName == <<"p", "u", "s", "h">>

\* lines 267-279: an index segment while cur is not an array: the array that is
\* built is dropped, every own property of cur is deleted and cur.push is set
ArrayLike(r, curPath) ==
    IF ~IsArray(NodeAt(r, curPath))
    THEN ReplaceAt(r, curPath, Obj(<<<<PushName, Func>>>>))
    ELSE r

\* lines 237-248: the last segment.  For an index while cur is not an array the
\* value is stored in a copy (arr) that nothing else refers to
SetLeafInline(r, curPath, p, value) ==
    IF isIndex(p)
    THEN IF ~IsArray(NodeAt(r, curPath)) THEN r
         ELSE AssignAt(r, curPath, IdxKey(p), value)
    ELSE AssignAt(r, curPath, p, value)

\* lines 233-289: the segment loop of the inline variant
RECURSIVE inlineFrom(_, _, _, _, _)
inlineFrom(r, curPath, parts, i, value) ==
    LET p == parts[i]
        last == i = Len(parts)
        shouldBeArray == ~last /\ isIndex(parts[i + 1])
    IN IF last THEN SetLeafInline(r, curPath, p, value)
       ELSE IF isIndex(p)
       THEN Only({inlineFrom(r1, Append(curPath, IdxKey(p)), parts, i + 1, value) :
                  r1 \in {EnsureContainer(ArrayLike(r, curPath), curPath,
                                          IdxKey(p), shouldBeArray)}})
       ELSE Only({inlineFrom(r1, Append(curPath, p), parts, i + 1, value) :
                  r1 \in {EnsureContainer(r, curPath, p, shouldBeArray)}})

\* lines 228-290: the body of the entry loop
unflattenEntryInline(r, flatKey, value) ==
    IF flatKey = <<>> THEN r
    ELSE inlineFrom(r, <<>>, Split(flatKey), 1, value)

-----------------------------------------------------------------------------
(* flattenJSON (lines 397-417); out is the property list of the object `out` *)

\* mutant of ChildKey: the key of the parent is left out
ChildKeyNoParent(parentKey, k) == k

\* line 400: parentKey ? `${parentKey}.${k}` : k
ChildKey(parentKey, k) == IF parentKey # <<>> THEN parentKey \o <<".">> \o k ELSE k

\* lines 407, 409: `${nk}.${i}` for the array position i
ElemKey(nk, i) == nk \o <<".">> \o NumToStr(i)

RECURSIVE flattenJSON(_, _, _)
RECURSIVE FlattenEntries(_, _, _, _)
RECURSIVE ForEach(_, _, _, _)

\* lines 397-398, 416
flattenJSON(obj, parentKey, o) ==
    IF ~IsObjectLike(obj) THEN o
    ELSE FlattenEntries(obj.p, 1, parentKey, o)

\* lines 399-415: the loop over Object.entries(obj), from entry j on
FlattenEntries(props, j, parentKey, o) ==
    IF j > Len(props) THEN o
    ELSE LET k == props[j][1]
             v == props[j][2]
             nk == ChildKey(parentKey, k)
         IN Only({FlattenEntries(props, j + 1, parentKey, o1) :
                  o1 \in {IF v.k = "o" THEN flattenJSON(v, nk, o)
                          ELSE IF IsArray(v) THEN ForEach(v.p, 1, nk, o)
                          ELSE PutProp(o, nk, OrEmpty(v))}})

\* lines 405-411: v.forEach, which visits the elements (not the other own
\* properties of the array, and not its holes), from property j on
ForEach(props, j, nk, o) ==
    IF j > Len(props) THEN o
    ELSE LET iv == props[j][2] IN
         IF ~IsIntegerKey(props[j][1]) THEN ForEach(props, j + 1, nk, o)
         ELSE Only({ForEach(props, j + 1, nk, o1) :
                    o1 \in {IF iv.k = "o"
                            THEN flattenJSON(iv, ElemKey(nk, Number(props[j][1])), o)
                            ELSE PutProp(o, ElemKey(nk, Number(props[j][1])), OrEmpty(iv))}})


-----------------------------------------------------------------------------
(* The sheets that are drawn *)

\* first segments: a name and an index (a pure-numeric top-level segment)
TopSegs == {<<"a">>, <<"0">>}
\* second segments: a name and two indices
SecondSegs == {<<"b">>, <<"0">>, <<"1">>}
\* later segments: a name and an index
DeepSegs == {<<"b">>, <<"0">>}
\* segments that end a two-segment path: the empty segment of "a." and an index
\* written with a leading zero
OddSegs == {<<>>, <<"0", "1">>}

RECURSIVE PathsOfLen(_)
PathsOfLen(d) ==
    IF d = 1 THEN {<<t>> : t \in TopSegs}
    ELSE {Append(q, t) : q \in PathsOfLen(d - 1),
                         t \in IF d = 2 THEN SecondSegs ELSE DeepSegs}

Paths == UNION {PathsOfLen(d) : d \in 1..MaxDepth}
           \cup {<<t, s>> : t \in TopSegs, s \in OddSegs}

\* the flat keys: the dotted paths, and the empty key
Keys == {Join(q) : q \in Paths} \cup {<<>>}

\* the key cells of a sheet: the keys, a key with blanks around it, a blank cell
KeyCells == Keys \cup {<<" ", "a", ".", "b", " ">>, <<" ">>}

\* String(r[keyCol] ?? '').trim()   (lines 138, 354)
RECURSIVE TrimStart(_)
TrimStart(s) == IF Len(s) > 0 /\ s[1] = " " THEN TrimStart(Tail(s)) ELSE s
RECURSIVE TrimEnd(_)
TrimEnd(s) == IF Len(s) > 0 /\ s[Len(s)] = " " THEN TrimEnd(SubSeq(s, 1, Len(s) - 1)) ELSE s
Trim(s) == TrimEnd(TrimStart(s))

NoBatch ==
    /\ files = <<>> /\ driver = "none" /\ unit = 0
    /\ flatMaps = {} /\ written = {} /\ reported = {} /\ exited = FALSE

batchVars == <<files, driver, unit, flatMaps, written, reported, exited>>

-----------------------------------------------------------------------------
(* xlsx2json: processWorkbookToJSON (lines 126-144) and the per-column main   *)
(* (lines 353-367) build a flat object from the rows of the sheet and hand it *)
(* to unflatten.  The rows are drawn one by one; a row is taken through the   *)
(* flat object and through the entry loop of both variants of unflatten at    *)
(* once, so the rows drawn are those whose keys Object.entries yields in the  *)
(* order of the rows (distinct keys, an integer-like key before the others).  *)
(* The value cell of row j holds the text of j: the code never looks into a   *)
(* value, and distinct texts tell the entries apart.                          *)

Init ==
    /\ pc = "unflatten"
    /\ tree = Undefined
    /\ flatObj = <<>>
    /\ n = 0
    /\ root = EmptyObj
    /\ root2 = EmptyObj
    /\ out = <<>>
    /\ NoBatch

\* the value cell of the row after the n rows read so far
CellValue(rowsRead) == Str(NumToStr(rowsRead + 1))

\* lines 137-141 (353-359), then lines 87-91 (228-290) for the entry the row makes
UnflattenEntry ==
    /\ pc = "unflatten"
    /\ n < MaxEntries
    /\ \E cell \in KeyCells :
         LET k == Trim(cell)
             value == CellValue(n)
         IN /\ k # <<>>
            /\ PropPos(flatObj, k, 1) = 0
            /\ InsertPos(flatObj, k, 1) = Len(flatObj) + 1
            /\ flatObj' = PutProp(flatObj, k, value)
            /\ root' = unflattenEntry(root, k, value)
            /\ root2' = unflattenEntryInline(root2, k, value)
    /\ n' = n + 1
    /\ UNCHANGED <<pc, tree, out, batchVars>>

\* lines 139, 355: if (!k) continue
SkipRow ==
    /\ pc = "unflatten"
    /\ n < MaxEntries
    /\ \E cell \in KeyCells : Trim(cell) = <<>>
    /\ n' = n + 1
    /\ UNCHANGED <<pc, tree, flatObj, root, root2, out, batchVars>>

\* lines 93, 291: return root; genxlsx flattens the document again (line 454)
FlattenResult ==
    /\ pc = "unflatten"
    /\ pc' = "flattened"
    /\ out' = flattenJSON(root, <<>>, <<>>)
    /\ UNCHANGED <<tree, flatObj, n, root, root2, batchVars>>

Next == UnflattenEntry \/ SkipRow \/ FlattenResult

Spec == Init /\ [][Next]_vars

-----------------------------------------------------------------------------
(* genxlsx then xlsx2json: a JSON document is flattened (line 454) and the    *)
(* flat object is given to unflatten.                                         *)

\* the leaves of a document: a text, the empty text, null
Scalars == {Str("x"), Str(""), Null}
\* the property names of the root, and of the objects below it
RootNames == {<<"a">>, <<"b">>}
InnerNames == {<<"b">>}

RECURSIVE ValuesOfSize(_)
RECURSIVE ElementsOfSize(_)

\* the lists of array elements with m nodes in all
ElementsOfSize(m) ==
    IF m = 0 THEN {<<>>}
    ELSE UNION {{<<v>> \o rest : v \in ValuesOfSize(j), rest \in ElementsOfSize(m - j)} :
                j \in 1..m}

\* the array [e1, ..., el] as JSON.parse builds it
ArrayOf(elems) == Arr([j \in 1..Len(elems) |-> <<NumToStr(j - 1), elems[j]>>])

\* the JSON values with k nodes
ValuesOfSize(k) ==
    IF k = 1 THEN Scalars \cup {EmptyObj, EmptyArr}
    ELSE {Obj(<<<<name, v>>>>) : name \in InnerNames, v \in ValuesOfSize(k - 1)}
           \cup {ArrayOf(e) : e \in ElementsOfSize(k - 1)}

NamePairs == {nn \in RootNames \X RootNames : nn[1] # nn[2]}

\* the documents: a root object with one property, or with two, in both orders
Documents ==
    {EmptyObj}
      \cup UNION {{Obj(<<<<name, v>>>>) : name \in RootNames, v \in ValuesOfSize(k)} :
                  k \in 1..(MaxNodes - 1)}
      \cup UNION {{Obj(<<<<nn[1], v>>, <<nn[2], s>>>>) :
                     nn \in NamePairs, v \in ValuesOfSize(k), s \in Scalars} :
                  k \in 1..(MaxNodes - 2)}
      \cup UNION {{Obj(<<<<nn[2], s>>, <<nn[1], v>>>>) :
                     nn \in NamePairs, v \in ValuesOfSize(k), s \in Scalars} :
                  k \in 1..(MaxNodes - 2)}

\* lines 87-93 (228-291): the entry loop of unflatten from entry j on
RECURSIVE unflattenFrom(_, _, _)
unflattenFrom(r, entries, j) ==
    IF j > Len(entries) THEN r
    ELSE Only({unflattenFrom(r1, entries, j + 1) :
               r1 \in {unflattenEntry(r, entries[j][1], entries[j][2])}})

\* lines 26-94
unflatten(flat) == unflattenFrom(EmptyObj, flat, 1)

RECURSIVE unflattenInlineFrom(_, _, _)
unflattenInlineFrom(r, entries, j) ==
    IF j > Len(entries) THEN r
    ELSE Only({unflattenInlineFrom(r1, entries, j + 1) :
               r1 \in {unflattenEntryInline(r, entries[j][1], entries[j][2])}})

\* lines 224-292
unflattenInline(flat) == unflattenInlineFrom(EmptyObj, flat, 1)

InitTree ==
    /\ pc = "flatten"
    /\ tree \in Documents
    /\ flatObj = <<>>
    /\ n = 0
    /\ root = EmptyObj
    /\ root2 = EmptyObj
    /\ out = <<>>
    /\ NoBatch

\* line 454: const flat = flattenJSON(data)
FlattenDocument ==
    /\ pc = "flatten"
    /\ pc' = "flat"
    /\ out' = flattenJSON(tree, <<>>, <<>>)
    /\ UNCHANGED <<tree, flatObj, n, root, root2, batchVars>>

\* lines 142, 367: const nested = unflatten(flatMap), on the flat object of the document
UnflattenFlat ==
    /\ pc = "flat"
    /\ pc' = "nested"
    /\ flatObj' = out
    /\ n' = Len(out)
    /\ root' = unflatten(out)
    /\ root2' = unflattenInline(out)
    /\ UNCHANGED <<tree, out, batchVars>>

NextTree == FlattenDocument \/ UnflattenFlat

SpecTree == InitTree /\ [][NextTree]_vars


-----------------------------------------------------------------------------
(* The batch drivers: the three main functions.  A unit is a workbook of the  *)
(* input directory (per-file xlsx2json), a value column of the sheet          *)
(* (per-column xlsx2json) or a JSON file of the input directory (genxlsx).    *)
(* files[u] says what happens to unit u: "ok", "readFail" (XLSX.readFile,     *)
(* fs.readFileSync or JSON.parse throws) or "convertFail"                     *)
(* (processWorkbookToJSON throws: no sheet, no key column, no value column).  *)

Drivers == {"perFile", "perColumn", "genxlsx"}

\* what can happen to a unit of each driver: unflatten and flattenJSON do not throw
Outcomes(d) ==
    CASE d = "perFile" -> {"ok", "readFail", "convertFail"}
      [] d = "perColumn" -> {"ok"}
      [] d = "genxlsx" -> {"ok", "readFail"}

convVars == <<tree, flatObj, n, root, root2, out>>

InitBatch ==
    /\ pc = "loop"
    /\ tree = Undefined /\ flatObj = <<>> /\ n = 0
    /\ root = EmptyObj /\ root2 = EmptyObj /\ out = <<>>
    /\ driver \in Drivers
    /\ files \in UNION {[1..k -> Outcomes(driver)] : k \in 1..MaxFiles}
    /\ unit = 0
    /\ flatMaps = {} /\ written = {} /\ reported = {} /\ exited = FALSE

\* lines 176-202: one turn of for (const fileName of excelFiles)
XlsxFileStep ==
    /\ pc = "loop" /\ driver = "perFile" /\ unit < Len(files)
    /\ unit' = unit + 1
    /\ \/ /\ files[unit + 1] = "readFail"          \* lines 179-184: report, continue
          /\ reported' = reported \cup {unit + 1}
          /\ UNCHANGED written
       \/ /\ files[unit + 1] = "convertFail"       \* lines 187-192: report, continue
          /\ reported' = reported \cup {unit + 1}
          /\ UNCHANGED written
       \/ /\ files[unit + 1] = "ok"                \* lines 194-201: writeFileSync
          /\ written' = written \cup {unit + 1}
          /\ UNCHANGED reported
    /\ UNCHANGED <<pc, convVars, files, driver, flatMaps, exited>>

\* lines 366-374: one turn of for (const col of valueCols)
ColumnStep ==
    /\ pc = "loop" /\ driver = "perColumn" /\ unit < Len(files)
    /\ unit' = unit + 1
    /\ written' = written \cup {unit + 1}
    /\ UNCHANGED <<pc, convVars, files, driver, flatMaps, reported, exited>>

\* lines 444-457: one turn of for (const file of files); a file that cannot be
\* read or parsed goes to exitWith (lines 391-394): console.error, process.exit
JsonFileStep ==
    /\ pc = "loop" /\ driver = "genxlsx" /\ unit < Len(files)
    /\ unit' = unit + 1
    /\ \/ /\ files[unit + 1] = "readFail"
          /\ reported' = reported \cup {unit + 1}
          /\ exited' = TRUE
          /\ pc' = "exit"
          /\ UNCHANGED flatMaps
       \/ /\ files[unit + 1] = "ok"
          /\ flatMaps' = flatMaps \cup {unit + 1}
          /\ UNCHANGED <<pc, reported, exited>>
    /\ UNCHANGED <<convVars, files, driver, written>>

\* lines 204-206 and 376: the loop is over, the count of files is logged
LoopDone ==
    /\ pc = "loop" /\ driver \in {"perFile", "perColumn"} /\ unit = Len(files)
    /\ pc' = "done"
    /\ UNCHANGED <<convVars, batchVars>>

\* lines 459-499: the rows are built from flatMaps and the workbook is written
WriteWorkbook ==
    /\ pc = "loop" /\ driver = "genxlsx" /\ unit = Len(files)
    /\ pc' = "done"
    /\ written' = flatMaps
    /\ UNCHANGED <<convVars, files, driver, unit, flatMaps, reported, exited>>

NextBatch == XlsxFileStep \/ ColumnStep \/ JsonFileStep \/ LoopDone \/ WriteWorkbook

SpecBatch == InitBatch /\ [][NextBatch]_vars


-----------------------------------------------------------------------------
(* Vocabulary of the properties *)

\* the own property names of a value
KeySet(x) == {x.p[j][1] : j \in 1..Len(x.p)}

\* structural equality: same kind, same text, same properties, whatever their order
RECURSIVE SameValue(_, _)
SameValue(x, y) ==
    /\ x.k = y.k
    /\ x.v = y.v
    /\ KeySet(x) = KeySet(y)
    /\ \A key \in KeySet(x) : SameValue(Get(x, key), Get(y, key))

\* the property names a dotted path leads through: an index segment names the
\* integer it denotes
CanonPath(parts) ==
    [j \in 1..Len(parts) |-> IF isIndex(parts[j]) THEN IdxKey(parts[j]) ELSE parts[j]]

\* the path of a flat key
PathOf(flatKey) == CanonPath(Split(flatKey))

IsPrefix(q1, q2) == Len(q1) <= Len(q2) /\ SubSeq(q2, 1, Len(q1)) = q1

\* the paths from x to its leaves (the values that are no containers)
RECURSIVE LeafPaths(_)
LeafPaths(x) ==
    IF IsObjectLike(x)
    THEN UNION {{<<x.p[j][1]>> \o q : q \in LeafPaths(x.p[j][2])} : j \in 1..Len(x.p)}
    ELSE {<<>>}

\* no prefix of `depth` segments or more is followed by a name in one entry and by
\* an index in another
KindsConsistentFrom(m, depth) ==
    \A j1, j2 \in 1..Len(m) :
        LET p1 == Split(m[j1][1])
            p2 == Split(m[j2][1])
        IN \A i \in depth..(Len(p1) - 1) :
              (i < Len(p2) /\ CanonPath(SubSeq(p1, 1, i)) = CanonPath(SubSeq(p2, 1, i)))
                 => (isIndex(p1[i + 1]) <=> isIndex(p2[i + 1]))

\* no path prefix is visited with inconsistent segment kinds
KindsConsistent(m) == KindsConsistentFrom(m, 0)

\* some prefix below the root is a mapping context in one entry and an index
\* context in another
KindConflict(m) == ~KindsConsistentFrom(m, 1)

\* no entry's path is a prefix of another entry's path, indices read as integers
PrefixFree(m) ==
    \A j1, j2 \in 1..Len(m) : j1 # j2 => ~IsPrefix(PathOf(m[j1][1]), PathOf(m[j2][1]))

\* every segment is a non-empty name or an index written without leading zeros
PlainSegments(m) ==
    \A j \in 1..Len(m) :
        LET parts == Split(m[j][1])
        IN \A i \in 1..Len(parts) :
              parts[i] # <<>> /\ (isIndex(parts[i]) => IsIntegerKey(parts[i]))

\* every entry of the flat object m is a leaf of r, and every leaf of r is the
\* leaf of exactly one entry
LeafEntryBijection(m, r) ==
    /\ \A j \in 1..Len(m) : NodeAt(r, PathOf(m[j][1])) = m[j][2]
    /\ \A q \in LeafPaths(r) :
          Cardinality({j \in 1..Len(m) : PathOf(m[j][1]) = q}) = 1

\* every first segment is a name
TopLevelNames(m) == \A j \in 1..Len(m) : ~isIndex(Split(m[j][1])[1])

\* the text of a key, for the examples
K1(s1) == <<s1>>
K2(s1, s2) == <<s1, ".", s2>>
K3(s1, s2, s3) == <<s1, ".", s2, ".", s3>>

-----------------------------------------------------------------------------
(* C1: round trip of a document *)

\* the nodes of a document are objects with plain names, arrays and text leaves
RECURSIVE WellFormed(_)
WellFormed(x) ==
    CASE x.k = "s" -> TRUE
      [] x.k = "o" -> \A j \in 1..Len(x.p) :
                         /\ x.p[j][1] # <<>>
                         /\ ~isIndex(x.p[j][1])
                         /\ \A c \in 1..Len(x.p[j][1]) : x.p[j][1][c] # "."
                         /\ WellFormed(x.p[j][2])
      [] x.k = "a" -> \A j \in 1..Len(x.p) :
                         IsIntegerKey(x.p[j][1]) /\ WellFormed(x.p[j][2])
      [] OTHER -> FALSE

\* every object and array of x has a property
RECURSIVE NoEmptyContainer(_)
NoEmptyContainer(x) ==
    IsObjectLike(x) =>
        /\ Len(x.p) > 0
        /\ \A j \in 1..Len(x.p) : NoEmptyContainer(x.p[j][2])

\* every object and array below the root of the document has a property
NoEmptyBelowRoot(x) == \A j \in 1..Len(x.p) : NoEmptyContainer(x.p[j][2])

\* C1 as stated: for every well-formed tree T, unflatten(flattenJSON(T)) is
\* structurally equal to T.  Fails on {a: {}}: an empty container has no flat key.
C1_RoundTrip_Original ==
    (pc = "nested" /\ tree.k = "o" /\ WellFormed(tree)) => SameValue(root, tree)

\* C1 (amended): for every well-formed tree T (root a mapping; nodes are mappings
\* with non-empty, non-numeric, dot-free names, sequences without holes, or scalar
\* leaves other than null) in which every mapping and sequence below the root is
\* non-empty, unflatten(flattenJSON(T)) is structurally equal to T, including the
\* order and nesting of every sequence.
C1_RoundTrip ==
    (pc = "nested" /\ tree.k = "o" /\ WellFormed(tree) /\ NoEmptyBelowRoot(tree))
        => SameValue(root, tree)

\* {a: [{b: "x"}, ""]} has been flattened and built again
C1_Witness ==
    /\ pc = "nested"
    /\ tree = Obj(<<<<K1("a"), ArrayOf(<<Obj(<<<<K1("b"), Str("x")>>>>), Str("")>>)>>>>)
    /\ flatObj = <<<<K3("a", "0", "b"), Str("x")>>, <<K2("a", "1"), Str("")>>>>
    /\ root = tree

-----------------------------------------------------------------------------
(* C2: flatten after unflatten *)

SameFlatMap(m1, m2) ==
    /\ {m1[j][1] : j \in 1..Len(m1)} = {m2[j][1] : j \in 1..Len(m2)}
    /\ \A j \in 1..Len(m1) : Get(Obj(m2), m1[j][1]) = m1[j][2]

\* C2: for every flat map M with unique non-empty dotted-path keys, scalar values
\* and no path prefix used with conflicting segment kinds (here also: plain
\* segments, names at the top level, and no path a prefix of another),
\* flattenJSON(unflatten(M)) has the key set of M and the value of M at every key.
\* Fails on {"a.0.0": v}: the result is {"a.0": [v]}.
C2_FlatRoundTrip ==
    (pc = "flattened" /\ KindsConsistent(flatObj) /\ PrefixFree(flatObj)
       /\ PlainSegments(flatObj) /\ TopLevelNames(flatObj))
        => SameFlatMap(out, flatObj)

-----------------------------------------------------------------------------
(* C3: a conflicting schema *)

\* unflatten has returned its tree (lines 93, 291)
UnflattenReturned == pc = "flattened"

\* C3: when a flat map uses one path prefix both as a mapping context and as an
\* index context, unflatten ends in an error and returns no tree (so none from
\* which the leaf of an earlier entry has been dropped).
\* Fails on {"a.b.b": v, "a.0.b": w}: {a: [{b: w}]} is returned, no error is raised.
C3_ConflictRejected ==
    (KindConflict(flatObj) /\ PlainSegments(flatObj) /\ TopLevelNames(flatObj))
        => ~UnflattenReturned

-----------------------------------------------------------------------------
(* C4: leaves and entries *)

\* C4 as stated: when no path prefix is visited with inconsistent segment kinds,
\* every entry is a leaf of the tree and every leaf is the leaf of exactly one
\* entry.  Fails on {"a": v, "a.b": w}: the leaf of "a" is replaced by {b: w}.
C4_Bijection_Original ==
    (KindsConsistent(flatObj) /\ PlainSegments(flatObj) /\ TopLevelNames(flatObj))
        => LeafEntryBijection(flatObj, root)

\* C4 (amended): when the keys are non-empty, no path prefix is visited with
\* inconsistent segment kinds and no entry's path is a prefix of another entry's
\* path (index segments read as integers), every entry (P, v) is reachable in the
\* returned tree by following the segments of P and holds exactly v, and every
\* leaf of the tree is the leaf of exactly one entry.
C4_Bijection ==
    (KindsConsistent(flatObj) /\ PrefixFree(flatObj))
        => LeafEntryBijection(flatObj, root)

\* {"a.0.b": "1", "a.1": "2"} has been processed
C4_Witness ==
    /\ flatObj = <<<<K3("a", "0", "b"), Str(<<"1">>)>>, <<K2("a", "1"), Str(<<"2">>)>>>>
    /\ KindsConsistent(flatObj) /\ PrefixFree(flatObj)
    /\ root = Obj(<<<<K1("a"),
                     ArrayOf(<<Obj(<<<<K1("b"), Str(<<"1">>)>>>>), Str(<<"2">>)>>)>>>>)

-----------------------------------------------------------------------------
(* C5: blanks *)

\* the paths from x to its null leaves
NullLeafPaths(x) == {q \in LeafPaths(x) : NodeAt(x, q) = Null}

\* C5: every null leaf of a tree given to flattenJSON appears in the flat map
\* under its path with the value '', and every entry with a non-empty key and a
\* blank value yields, through unflatten, a leaf '' at that key's path.
\* Fails on {a: [[null]]}: the flat map is {"a.0": [null]}.
C5_BlankPreserved ==
    /\ pc \in {"flat", "nested"} =>
          \A q \in NullLeafPaths(tree) : Get(Obj(out), Join(q)) = Str("")
    /\ pc = "nested" =>
          \A j \in 1..Len(flatObj) :
              (flatObj[j][1] # <<>> /\ flatObj[j][2] = Str(""))
                 => NodeAt(root, PathOf(flatObj[j][1])) = Str("")


-----------------------------------------------------------------------------
(* C6: the batch drivers *)

BatchOver == pc \in {"done", "exit"}

\* C6: in every batch driver a unit that cannot be read, parsed or converted is
\* reported and the loop goes on: when the run is over, every unit that succeeds
\* on its own has its output written and every other unit has been reported.
\* Fails for genxlsx on the files <<bad, good>>: exitWith ends the process.
C6_UnitIsolation ==
    BatchOver =>
        \A u \in 1..Len(files) :
            /\ files[u] = "ok" => u \in written
            /\ files[u] # "ok" => u \in reported

-----------------------------------------------------------------------------
(* C7: containers are made after the kind of the next segment *)

\* a row has been taken through unflatten in this step
EntryStep == Len(flatObj') = Len(flatObj) + 1

\* the segments of the entry of this step
StepParts == Split(flatObj'[Len(flatObj')][1])

ListExample ==
    <<<<K3("a", "0", "b"), Str(<<"1">>)>>, <<K3("a", "1", "b"), Str(<<"2">>)>>>>

ListExampleTree ==
    Obj(<<<<K1("a"), ArrayOf(<<Obj(<<<<K1("b"), Str(<<"1">>)>>>>),
                              Obj(<<<<K1("b"), Str(<<"2">>)>>>>)>>)>>>>)

\* C7: for every entry and every non-terminal segment s whose node is no container
\* yet, the node at s after the entry is a sequence when the next segment is an
\* index and a mapping otherwise; an index segment below the root is stored at
\* that integer position of a sequence; and {"a.0.b": v, "a.1.b": w} yields
\* {a: [{b: v}, {b: w}]}.
C7_ArrayReconstruction ==
    [][EntryStep =>
         /\ \A parts \in {StepParts} :
              /\ \A i \in 1..(Len(parts) - 1) :
                   \A at \in {CanonPath(SubSeq(parts, 1, i))} :
                      NotAContainer(NodeAt(root, at))
                        => NodeAt(root', at).k
                              = IF isIndex(parts[i + 1]) THEN "a" ELSE "o"
              /\ \A i \in 2..Len(parts) :
                   isIndex(parts[i])
                     => \A seq \in {NodeAt(root', CanonPath(SubSeq(parts, 1, i - 1)))} :
                           IsArray(seq) /\ HasOwn(seq, NumToStr(Number(parts[i])))
         /\ flatObj' = ListExample => root' = ListExampleTree
      ]_vars

\* the example has been processed
C7_Witness == flatObj = ListExample /\ root = ListExampleTree

-----------------------------------------------------------------------------
(* C8: numeric segments at the top level *)

\* C8: the root stays a mapping that holds the first segment of every entry, a
\* numeric one as a numeric-looking name next to the named ones; and processing an
\* entry whose first segment is numeric leaves every root property of another
\* name unchanged.
C8_TopLevelNumeric ==
    [][EntryStep =>
         /\ root'.k = "o"
         /\ \A j \in 1..Len(flatObj') : HasOwn(root', PathOf(flatObj'[j][1])[1])
         /\ \A top \in {StepParts[1]} :
               isIndex(top) =>
                  \A key \in KeySet(root) \ {NumToStr(Number(top))} :
                     Get(root', key) = Get(root, key)
      ]_vars

\* {"a": "1", "0.b": "2"} has been processed: "0" and "a" are names of the root
C8_Witness ==
    /\ flatObj = <<<<K1("a"), Str(<<"1">>)>>, <<K2("0", "b"), Str(<<"2">>)>>>>
    /\ root = Obj(<<<<K1("0"), Obj(<<<<K1("b"), Str(<<"2">>)>>>>)>>,
                    <<K1("a"), Str(<<"1">>)>>>>)

-----------------------------------------------------------------------------
(* C9: empty segments *)

\* some object or array of x has a property named by the empty string
RECURSIVE HasEmptyName(_)
HasEmptyName(x) ==
    \E j \in 1..Len(x.p) : x.p[j][1] = <<>> \/ HasEmptyName(x.p[j][2])

\* C9: an entry whose path has an empty segment is skipped or makes unflatten
\* fail; no node or leaf named by the empty string is written into the tree.
\* Fails on {"a.": v}: the tree is {a: {"": v}}.
C9_NoEmptyName == ~HasEmptyName(root)

-----------------------------------------------------------------------------
(* C10: the two variants of unflatten *)

\* C10: the setDeep variant and the inline variant return structurally equal
\* trees for every flat map with no conflicting path kinds, flat maps with
\* pure-numeric top-level segments included.
\* Fails on {"0": v}: the setDeep variant returns {"0": v}, the inline variant {}.
C10_VariantsAgree ==
    (KindsConsistentFrom(flatObj, 1) /\ PlainSegments(flatObj) /\ PrefixFree(flatObj))
        => SameValue(root, root2)


====
